---- MODULE Spec2Model ----
(***************************************************************************)
(* A model of pyuwbcalib/uwbcalibrate.py: class UwbCalibrate.               *)
(*                                                                         *)
(* numpy float arrays are sequences of exact rationals [n, d] (d > 0, in   *)
(* lowest terms); d = 0 encodes the IEEE-754 non-finite values: NaN        *)
(* (n = 0), +inf (n = 1), -inf (n = -1).  Rounding error of floating point *)
(* is not modelled; the non-finite values and their arithmetic are.        *)
(* Array indices are 0-based in the source and 1-based here.               *)
(***************************************************************************)
EXTENDS Integers, Sequences, FiniteSets, TLC

VARIABLES
    average,     \* self.average
    static,      \* self.static
    thresh,      \* self.thresh
    twr_type,    \* self.twr_type
    board_ids,   \* self.board_ids, the ids of modules i, j, k
    data,        \* self.data: key (initiator id, target id) -> pair dataset
    file,        \* the log file handed to _extract_data (rows of columns)
    ret,         \* the last call: operation, arguments, outcome, return value
    system,      \* the linear system the last calibrate_antennas handed to the solver
    printed,     \* what the last calibrate_antennas printed
    ncorr        \* number of correct_antenna_delay calls so far

vars == <<average, static, thresh, twr_type, board_ids, data, file, ret,
          system, printed, ncorr>>

----------------------------------------------------------------------------
(* Floating-point values                                                   *)

Abs(i) == IF i < 0 THEN -i ELSE i

Sgn(i) == IF i < 0 THEN -1 ELSE IF i > 0 THEN 1 ELSE 0

RECURSIVE GCD(_, _)
GCD(a, b) == IF b = 0 THEN a ELSE GCD(b, a % b)

NaN == [n |-> 0, d |-> 0]

\* n / d as a float; x / 0 is NaN or a signed infinity
Q(n, d) ==
    IF d = 0 THEN [n |-> Sgn(n), d |-> 0]
    ELSE LET g == GCD(Abs(n), Abs(d))
         IN  [n |-> Sgn(d) * (n \div g), d |-> Abs(d) \div g]

F(i) == [n |-> i, d |-> 1]

IsNaN(a) == a.d = 0 /\ a.n = 0

IsInf(a) == a.d = 0 /\ a.n # 0

IsFinite(a) == a.d > 0

QNeg(a) == [n |-> -a.n, d |-> a.d]

QAbs(a) == [n |-> Abs(a.n), d |-> a.d]

QAdd(a, b) ==
    IF IsNaN(a) \/ IsNaN(b) THEN NaN
    ELSE IF IsInf(a) /\ IsInf(b) THEN (IF a.n = b.n THEN a ELSE NaN)
    ELSE IF IsInf(a) THEN a
    ELSE IF IsInf(b) THEN b
    ELSE IF a.d = 1 /\ b.d = 1 THEN [n |-> a.n + b.n, d |-> 1]
    ELSE LET g == GCD(a.d, b.d)
         IN  Q(a.n * (b.d \div g) + b.n * (a.d \div g), (a.d \div g) * b.d)

QSub(a, b) == QAdd(a, QNeg(b))

QMul(a, b) ==
    IF IsNaN(a) \/ IsNaN(b) THEN NaN
    ELSE IF IsInf(a) \/ IsInf(b) THEN Q(Sgn(a.n) * Sgn(b.n), 0)
    ELSE IF a.d = 1 /\ b.d = 1 THEN [n |-> a.n * b.n, d |-> 1]
    ELSE LET g1 == GCD(Abs(a.n), b.d)
             g2 == GCD(Abs(b.n), a.d)
         IN  Q((a.n \div g1) * (b.n \div g2), (a.d \div g2) * (b.d \div g1))

QDiv(a, b) ==
    IF IsNaN(a) \/ IsNaN(b) THEN NaN
    ELSE IF IsInf(b) THEN (IF IsInf(a) THEN NaN ELSE F(0))
    ELSE IF b.n = 0 THEN Q(Sgn(a.n), 0)
    ELSE QMul(a, [n |-> Sgn(b.n) * b.d, d |-> Abs(b.n)])

\* a < b as floats: every comparison with NaN is false
QLt(a, b) ==
    IF IsNaN(a) \/ IsNaN(b) THEN FALSE
    ELSE IF a = b THEN FALSE
    ELSE IF IsInf(a) THEN a.n < 0
    ELSE IF IsInf(b) THEN b.n > 0
    ELSE a.n * b.d < b.n * a.d

QGt(a, b) == QLt(b, a)

QLe(a, b) == ~IsNaN(a) /\ ~IsNaN(b) /\ ~QLt(b, a)

Half == Q(1, 2)

RECURSIVE QSum(_)
QSum(s) == IF s = <<>> THEN F(0) ELSE QAdd(Head(s), QSum(Tail(s)))

\* numpy elementwise operations
\* a function over 1..n as a sequence proper
SeqOf(f) == f \o <<>>

ArrSub(s, t) == SeqOf([r \in 1..Len(s) |-> QSub(s[r], t[r])])

ArrMul(s, t) == SeqOf([r \in 1..Len(s) |-> QMul(s[r], t[r])])

ArrDiv(s, t) == SeqOf([r \in 1..Len(s) |-> QDiv(s[r], t[r])])

Shift(s, c) == SeqOf([r \in 1..Len(s) |-> QAdd(s[r], c)])

----------------------------------------------------------------------------
(* The object and its pair datasets                                        *)

_c == 299702547

\* bounds of the model
MaxRows == 3

MaxCorrections == 1

MaxDelay == 3

MaxFileRows == 2

Fields == {"dt", "gt", "Ra1", "Ra2", "Db1", "Db2", "D1", "D2"}

\* the (initiating_idx, target_idx) pairs the calibration uses
Pairs == <<(<<0, 1>>), (<<0, 2>>), (<<1, 2>>)>>

\* str(board_ids[initiating_idx]) + "->" + str(board_ids[target_idx])
Key(initiating_idx, target_idx) ==
    <<board_ids[initiating_idx + 1], board_ids[target_idx + 1]>>

\* int(key.partition("-")[0]) and int(key.partition(">")[2])
KeyInitiator(key) == key[1]

KeyTarget(key) == key[2]

\* the keys of self.data in iteration (insertion) order
KeyOrder == <<Key(0, 1), Key(0, 2), Key(1, 2)>>

NoRet == [op |-> "none", args |-> <<>>, status |-> "none"]

----------------------------------------------------------------------------
(* calibrate_antennas and its helpers                                      *)

CalculateSkewGain(initiating_idx, target_idx) ==
    LET d   == data[Key(initiating_idx, target_idx)]
        Ra2 == d.Ra2
        Db2 == d.Db2
    IN  IF twr_type = 0 THEN ArrDiv(Ra2, Ra2) ELSE ArrDiv(Ra2, Db2)

SetupAMatrix(K, initiating_idx, target_idx) ==
    LET Entry(r, col) ==
            IF col = target_idx + 1 THEN QMul(Half, K[r])
            ELSE IF col = initiating_idx + 1 THEN Half
            ELSE F(0)
    IN  SeqOf([r \in 1..Len(K) |-> <<Entry(r, 1), Entry(r, 2), Entry(r, 3)>>])

\* a variant of the b vector with the sign of the Ra1 term flipped
SetupBVector_PlusRa1(K, initiating_idx, target_idx) ==
    LET d == data[Key(initiating_idx, target_idx)]
    IN  SeqOf([r \in 1..Len(K) |->
            QAdd(QAdd(QMul(QMul(QDiv(F(1), F(_c)), d.gt[r]), F(1000000000)),
                      QMul(Half, d.Ra1[r])),
                 QMul(QMul(Half, K[r]), d.Db1[r]))])

SetupBVector(K, initiating_idx, target_idx) ==
    LET d == data[Key(initiating_idx, target_idx)]
    IN  SeqOf([r \in 1..Len(K) |->
            QAdd(QSub(QMul(QMul(QDiv(F(1), F(_c)), d.gt[r]), F(1000000000)),
                      QMul(Half, d.Ra1[r])),
                 QMul(QMul(Half, K[r]), d.Db1[r]))])

\* a[mask] for a boolean mask
RECURSIVE Compress(_, _)
Compress(a, mask) ==
    IF a = <<>> THEN <<>>
    ELSE (IF Head(mask) THEN <<Head(a)>> ELSE <<>>)
         \o Compress(Tail(a), Tail(mask))

Dot(u, v) == QSum(ArrMul(u, v))

Column(A, col) == SeqOf([r \in 1..Len(A) |-> A[r][col]])

\* A x for a matrix A (rows of 3) and x of length 3
MatVec(A, x) == SeqOf([r \in 1..Len(A) |-> Dot(A[r], x)])

AllFinite(A, b) ==
    \A r \in 1..Len(A) : IsFinite(b[r]) /\ \A col \in 1..3 : IsFinite(A[r][col])

\* the minimum-norm least-squares solution of a finite system: the limit of
\* (A'A + eI)^-1 A'b for e -> 0, by Cramer's rule on the characteristic
\* expansion (rank 3: the unique least-squares solution)
PinvSolve(A, b) ==
    LET a1 == Column(A, 1)
        a2 == Column(A, 2)
        a3 == Column(A, 3)
        M == <<(<<Dot(a1, a1), Dot(a1, a2), Dot(a1, a3)>>),
               (<<Dot(a2, a1), Dot(a2, a2), Dot(a2, a3)>>),
               (<<Dot(a3, a1), Dot(a3, a2), Dot(a3, a3)>>)>>
        v == <<Dot(a1, b), Dot(a2, b), Dot(a3, b)>>
        Det2(p, q, r, s) == QSub(QMul(p, s), QMul(q, r))
        Det3(X) ==
            QAdd(QSub(QMul(X[1][1], Det2(X[2][2], X[2][3], X[3][2], X[3][3])),
                      QMul(X[1][2], Det2(X[2][1], X[2][3], X[3][1], X[3][3]))),
                 QMul(X[1][3], Det2(X[2][1], X[2][2], X[3][1], X[3][2])))
        Rrow(i, p) == <<IF i = 1 THEN v[p] ELSE M[p][1],
                        IF i = 2 THEN v[p] ELSE M[p][2],
                        IF i = 3 THEN v[p] ELSE M[p][3]>>
        Repl(i) == <<Rrow(i, 1), Rrow(i, 2), Rrow(i, 3)>>
        det == Det3(M)
        c2  == QAdd(QAdd(Det2(M[1][1], M[1][2], M[2][1], M[2][2]),
                         Det2(M[1][1], M[1][3], M[3][1], M[3][3])),
                    Det2(M[2][2], M[2][3], M[3][2], M[3][3]))
        tr  == QAdd(QAdd(M[1][1], M[2][2]), M[3][3])
        Oth(i) == (1..3) \ {i}
        N1(i) == LET j == CHOOSE j \in Oth(i) : \A k \in Oth(i) : j <= k
                     k == CHOOSE k \in Oth(i) : k # j
                 IN  QSub(QSub(QMul(v[i], QAdd(M[j][j], M[k][k])),
                               QMul(M[i][j], v[j])),
                          QMul(M[i][k], v[k]))
        X(i) == IF det # F(0) THEN QDiv(Det3(Repl(i)), det)
                ELSE IF c2 # F(0) THEN QDiv(N1(i), c2)
                ELSE IF tr # F(0) THEN QDiv(v[i], tr)
                ELSE F(0)
    IN  <<X(1), X(2), X(3)>>

\* a variant of the solver that refuses a system of fewer than 3 rows
SolveForAntennaDelays_Strict(A, b) ==
    IF AllFinite(A, b) /\ Len(A) >= 3
    THEN {[status |-> "ok", x |-> PinvSolve(A, b)]}
    ELSE {[status |-> "LinAlgError", x |-> <<NaN, NaN, NaN>>]}

\* np.linalg.lstsq(A, b): the outcomes it can produce.  A system with an
\* infinite entry makes LAPACK's SVD fail: numpy raises LinAlgError, or the
\* build returns NaNs.
SolveForAntennaDelays(A, b) ==
    IF AllFinite(A, b)
    THEN {[status |-> "ok", x |-> PinvSolve(A, b)]}
    ELSE {[status |-> "LinAlgError", x |-> <<NaN, NaN, NaN>>],
          [status |-> "ok", x |-> <<NaN, NaN, NaN>>]}

\* np.linalg.norm of a flat list of entries, as its square
Norm2(entries) == QSum(ArrMul(entries, entries))

RECURSIVE Flatten(_)
Flatten(rows) == IF rows = <<>> THEN <<>> ELSE Head(rows) \o Flatten(Tail(rows))

\* b - A * np.array([x[0], x[1], x[2]]): "*" is elementwise, the (n x 1)
\* vector b is broadcast against the (n x 3) product
FitDiagnostic(A, b, x) ==
    LET E(r, col) == QSub(b[r], QMul(A[r][col], x[col]))
    IN  SeqOf([r \in 1..Len(A) |-> <<E(r, 1), E(r, 2), E(r, 3)>>])

\* the stacked system after NaN-row removal
StackedSystem ==
    LET K1 == CalculateSkewGain(0, 1)
        A1 == SetupAMatrix(K1, 0, 1)
        b1 == SetupBVector(K1, 0, 1)
        K2 == CalculateSkewGain(0, 2)
        A2 == SetupAMatrix(K2, 0, 2)
        b2 == SetupBVector(K2, 0, 2)
        K3 == CalculateSkewGain(1, 2)
        A3 == SetupAMatrix(K3, 1, 2)
        b3 == SetupBVector(K3, 1, 2)
        A  == A1 \o A2 \o A3
        b  == b1 \o b2 \o b3
        nan_idx == SeqOf([r \in 1..Len(b) |-> ~IsNaN(b[r])])
    IN  [K |-> <<K1, K2, K3>>, A |-> Compress(A, nan_idx), b |-> Compress(b, nan_idx)]

\* the returned dict {"Module " + str(board_ids[z]): x[z]}
ModuleDelays(x) ==
    [m \in {board_ids[z] : z \in 1..3} |->
        x[CHOOSE z \in 1..3 : board_ids[z] = m /\ \A y \in 1..3 : board_ids[y] = m => y <= z]]

CalibrateAntennas ==
    LET sys == StackedSystem
    IN  \E out \in SolveForAntennaDelays(sys.A, sys.b) :
            /\ system' = sys
            /\ IF out.status = "ok"
               THEN /\ printed' = <<Norm2(sys.b),
                                    Norm2(Flatten(FitDiagnostic(sys.A, sys.b, out.x)))>>
                    /\ ret' = [op |-> "calibrate_antennas", args |-> <<>>,
                               status |-> "ok", value |-> ModuleDelays(out.x)]
               ELSE /\ printed' = <<>>
                    /\ ret' = [op |-> "calibrate_antennas", args |-> <<>>,
                               status |-> out.status]
            /\ UNCHANGED <<average, static, thresh, twr_type, board_ids, data,
                           file, ncorr>>

----------------------------------------------------------------------------
(* correct_antenna_delay and compute_range_meas                            *)

\* a variant of the loop body that adds the delay to Db1 as well
CorrectDataset_PlusDb1(key, d, id, delay) ==
    IF KeyInitiator(key) = id THEN [d EXCEPT !.Ra1 = Shift(d.Ra1, delay)]
    ELSE IF KeyTarget(key) = id THEN [d EXCEPT !.Db1 = Shift(d.Db1, delay)]
    ELSE d

\* the loop body of correct_antenna_delay for one key
CorrectDataset(key, d, id, delay) ==
    IF KeyInitiator(key) = id THEN [d EXCEPT !.Ra1 = Shift(d.Ra1, delay)]
    ELSE IF KeyTarget(key) = id THEN [d EXCEPT !.Db1 = Shift(d.Db1, QNeg(delay))]
    ELSE d

CorrectAntennaDelay(id, delay) ==
    /\ ncorr < MaxCorrections
    /\ ncorr' = ncorr + 1
    /\ data' = [key \in DOMAIN data |-> CorrectDataset(key, data[key], id, delay)]
    /\ ret' = [op |-> "correct_antenna_delay", args |-> <<id, delay>>,
               status |-> "ok"]
    /\ UNCHANGED <<average, static, thresh, twr_type, board_ids, file, system,
                   printed>>

\* the range of one dataset
RangeOf(temp) ==
    IF twr_type = 0
    THEN SeqOf([r \in 1..Len(temp.Ra1) |->
            QDiv(QMul(QMul(Half, F(_c)), QSub(temp.Ra1[r], temp.Db1[r])),
                 F(1000000000))])
    ELSE SeqOf([r \in 1..Len(temp.Ra1) |->
            QDiv(QMul(QMul(Half, F(_c)),
                      QSub(temp.Ra1[r],
                           QMul(QDiv(temp.Ra2[r], temp.Db2[r]), temp.Db1[r]))),
                 F(1000000000))])

\* the first key of self.data that joins id1 and id2, in either direction
MatchingKeys(id1, id2) ==
    {p \in 1..3 :
        \/ KeyInitiator(KeyOrder[p]) = id1 /\ KeyTarget(KeyOrder[p]) = id2
        \/ KeyInitiator(KeyOrder[p]) = id2 /\ KeyTarget(KeyOrder[p]) = id1}

ComputeRangeMeas(id1, id2) ==
    /\ LET hit == MatchingKeys(id1, id2)
       IN  IF hit = {}
           THEN ret' = [op |-> "compute_range_meas", args |-> <<id1, id2>>,
                        status |-> "ok", none |-> TRUE, value |-> <<>>]
           ELSE LET p == CHOOSE p \in hit : \A q \in hit : p <= q
                IN  ret' = [op |-> "compute_range_meas", args |-> <<id1, id2>>,
                            status |-> "ok", none |-> FALSE,
                            value |-> RangeOf(data[KeyOrder[p]])]
    /\ UNCHANGED <<average, static, thresh, twr_type, board_ids, data, file,
                   system, printed, ncorr>>

----------------------------------------------------------------------------
(* _extract_data and its helpers                                           *)

\* 2**32 * (1 / 499200000 / 128) * 1e9 = 67216410.26 ns, to the nanosecond
max_time_ns == 67216410

\* 10e7: the gap in the reference timestamps that starts a new formation
gap_threshold == 100000000

\* 1e6 and 1e3: the rounding unit and the band of the D1/D2 wrap test
round_unit == 1000000

wrap_band == 1000

\* columns_to_read for the pair (initiating_idx, target_idx)
ColumnsToRead(initiating_idx, target_idx) ==
    LET idx_diff     == target_idx - initiating_idx
        first_column == 2 + 11 * (idx_diff - 1)
        last_column  == first_column + 9
    IN  <<0>> \o SeqOf([k \in 1..(last_column - first_column) |-> first_column + k - 1])

\* np.genfromtxt(filename, usecols=...): the rows of the selected columns
Genfromtxt(f, usecols) ==
    SeqOf([r \in 1..Len(f) |-> SeqOf([k \in 1..Len(usecols) |-> f[r][usecols[k] + 1]])])

\* my_data[:, c]
Col(my_data, c) == SeqOf([r \in 1..Len(my_data) |-> my_data[r][c + 1]])

\* a[beg:end]
Slice(a, beg, end) == SubSeq(a, beg + 1, end)

\* the indices k >= 1 with |ts[k] - ts[k-1]| > 10e7, from index k on
RECURSIVE GapsFrom(_, _)
GapsFrom(mocap_ts, k) ==
    IF k >= Len(mocap_ts) THEN <<>>
    ELSE (IF QGt(QAbs(QSub(mocap_ts[k + 1], mocap_ts[k])), F(gap_threshold))
          THEN <<k>> ELSE <<>>)
         \o GapsFrom(mocap_ts, k + 1)

FindMocapGaps(mocap_ts) == GapsFrom(mocap_ts, 1)

\* [0] + gap_idx + [np.size(my_data[:, 2])]
PaddedGaps(my_data) == <<0>> \o FindMocapGaps(Col(my_data, 2)) \o <<Len(my_data)>>

Mean(a) == QDiv(QSum(a), F(Len(a)))

\* a variant of the delta wrap that leaves negative deltas alone
DeltaWrap_None(a) == a

\* a[a < 0] = a[a < 0] + max_time_ns
DeltaWrap(a) ==
    SeqOf([r \in 1..Len(a) |->
        IF QLt(a[r], F(0)) THEN QAdd(a[r], F(max_time_ns)) ELSE a[r]])

\* np.round(x, 0): the nearest integer, halves to the even one
RoundHalfEven(x) ==
    LET fl == x.n \div x.d
        r2 == 2 * (x.n - fl * x.d)
    IN  IF r2 < x.d THEN fl
        ELSE IF r2 > x.d THEN fl + 1
        ELSE IF fl % 2 = 0 THEN fl ELSE fl + 1

\* stats.mode(a).mode: the smallest of the most frequent values
Mode(a) ==
    LET Count(v) == Cardinality({r \in 1..Len(a) : a[r] = v})
        best == {r \in 1..Len(a) : \A q \in 1..Len(a) : Count(a[q]) <= Count(a[r])}
    IN  a[CHOOSE r \in best : \A q \in best : ~QLt(a[q], a[r])]

\* the loop body of the D1 (and D2) correction for one segment
SegmentWrapOne(D_temp) ==
    LET D_rounded == SeqOf([r \in 1..Len(D_temp) |->
                        F(RoundHalfEven(QDiv(D_temp[r], F(round_unit))) * round_unit)])
        mode_D    == Mode(D_rounded)
        dev       == SeqOf([r \in 1..Len(D_temp) |-> QSub(D_rounded[r], mode_D)])
    IN  SeqOf([r \in 1..Len(D_temp) |->
            IF QLt(dev[r], F(-wrap_band)) THEN QAdd(D_temp[r], F(max_time_ns))
            ELSE IF QGt(dev[r], F(wrap_band)) THEN QSub(D_temp[r], F(max_time_ns))
            ELSE D_temp[r]])

RECURSIVE SegmentWrapFrom(_, _, _)
SegmentWrapFrom(D, gap_idx, idx) ==
    IF idx >= Len(gap_idx) THEN <<>>
    ELSE SegmentWrapOne(Slice(D, gap_idx[idx], gap_idx[idx + 1]))
         \o SegmentWrapFrom(D, gap_idx, idx + 1)

\* the D1 (and D2) correction over all segments
SegmentWrap(D, gap_idx) == SegmentWrapFrom(D, gap_idx, 1)

\* the averages of the static intervals, from segment idx on
RECURSIVE AveragesFrom(_, _, _)
AveragesFrom(my_data, gap_idx, idx) ==
    IF idx >= Len(gap_idx)
    THEN [gt |-> <<>>, Ra1 |-> <<>>, Ra2 |-> <<>>, Db1 |-> <<>>, Db2 |-> <<>>]
    ELSE LET idx_beg == gap_idx[idx]
             idx_end == gap_idx[idx + 1]
             tx1 == Slice(Col(my_data, 4), idx_beg, idx_end)
             rx1 == Slice(Col(my_data, 5), idx_beg, idx_end)
             tx2 == Slice(Col(my_data, 6), idx_beg, idx_end)
             rx2 == Slice(Col(my_data, 7), idx_beg, idx_end)
             tx3 == Slice(Col(my_data, 8), idx_beg, idx_end)
             rx3 == Slice(Col(my_data, 9), idx_beg, idx_end)
             rest == AveragesFrom(my_data, gap_idx, idx + 1)
         IN  [gt  |-> <<Mean(Slice(Col(my_data, 3), idx_beg, idx_end))>> \o rest.gt,
              Ra1 |-> <<Mean(ArrSub(rx2, tx1))>> \o rest.Ra1,
              Ra2 |-> <<Mean(ArrSub(rx3, rx2))>> \o rest.Ra2,
              Db1 |-> <<Mean(ArrSub(tx2, rx1))>> \o rest.Db1,
              Db2 |-> <<Mean(ArrSub(tx3, tx2))>> \o rest.Db2]

\* the local variables after the if / elif on static and average; unbound
\* names the locals no branch has assigned
BranchLocals(my_data) ==
    IF static /\ average
    THEN LET gap_idx == PaddedGaps(my_data)
             avg == AveragesFrom(my_data, gap_idx, 1)
             n   == Len(gap_idx)
         IN  [unbound |-> {"D1", "D2"},
              gt |-> avg.gt, Ra1 |-> avg.Ra1, Ra2 |-> avg.Ra2,
              Db1 |-> avg.Db1, Db2 |-> avg.Db2,
              tx1 |-> Slice(Col(my_data, 4), gap_idx[n - 1], gap_idx[n]),
              D1 |-> <<>>, D2 |-> <<>>]
    ELSE IF static
    THEN LET tx1 == Col(my_data, 4)
             rx1 == Col(my_data, 5)
             tx2 == Col(my_data, 6)
             rx2 == Col(my_data, 7)
             tx3 == Col(my_data, 8)
             rx3 == Col(my_data, 9)
         IN  [unbound |-> {},
              gt |-> Col(my_data, 3),
              Ra1 |-> ArrSub(rx2, tx1), Ra2 |-> ArrSub(rx3, rx2),
              Db1 |-> ArrSub(tx2, rx1), Db2 |-> ArrSub(tx3, tx2),
              tx1 |-> tx1,
              D1 |-> ArrSub(rx1, tx1), D2 |-> ArrSub(rx2, tx2)]
    ELSE [unbound |-> {"tx1", "D1", "D2"},
          gt |-> <<>>, Ra1 |-> <<>>, Ra2 |-> <<>>, Db1 |-> <<>>, Db2 |-> <<>>,
          tx1 |-> <<>>, D1 |-> <<>>, D2 |-> <<>>]

\* dt = np.hstack(([0], tx1[1:] - tx1[:-1])), then the wrap of dt
DeltaTime(tx1) ==
    DeltaWrap(<<F(0)>> \o SeqOf([r \in 1..(Len(tx1) - 1) |-> QSub(tx1[r + 1], tx1[r])]))

\* a variant of the outlier test that looks at the first round only
OutlierRows_FirstRound(Ra1, Ra2, Db1, Db2) ==
    SeqOf([r \in 1..Len(Ra1) |->
        \/ QGt(QAbs(Ra1[r]), F(thresh))
        \/ QGt(QAbs(Db1[r]), F(thresh))])

\* the rows to remove: any of |Ra1|, |Ra2|, |Db1|, |Db2| above thresh
OutlierRows(Ra1, Ra2, Db1, Db2) ==
    SeqOf([r \in 1..Len(Ra1) |->
        \/ QGt(QAbs(Ra1[r]), F(thresh))
        \/ QGt(QAbs(Ra2[r]), F(thresh))
        \/ QGt(QAbs(Db1[r]), F(thresh))
        \/ QGt(QAbs(Db2[r]), F(thresh))])

\* np.delete(a, idx_rows, 0) for a boolean mask of the length of a
Delete(a, idx_rows) == Compress(a, SeqOf([r \in 1..Len(idx_rows) |-> ~idx_rows[r]]))

\* a variant of the id assertions that checks the initiator only
IdsAsserted_InitiatorOnly(my_data, initiating_id, target_id) ==
    my_data[1][1] = F(initiating_id)

\* assert my_data[0, 0] == initiating_id; assert my_data[0, 1] == target_id
IdsAsserted(my_data, initiating_id, target_id) ==
    /\ my_data[1][1] = F(initiating_id)
    /\ my_data[1][2] = F(target_id)

\* the outcome of _extract_data on the file for (initiating_idx, target_idx)
ExtractOutcome(initiating_idx, target_idx) ==
    LET initiating_id == board_ids[initiating_idx + 1]
        target_id     == board_ids[target_idx + 1]
        my_data == Genfromtxt(file, ColumnsToRead(initiating_idx, target_idx))
        loc     == BranchLocals(my_data)
        dt      == DeltaTime(loc.tx1)
        Ra1     == DeltaWrap(loc.Ra1)
        Ra2     == DeltaWrap(loc.Ra2)
        Db1     == DeltaWrap(loc.Db1)
        Db2     == DeltaWrap(loc.Db2)
        gap_idx == PaddedGaps(my_data)
        D1      == SegmentWrap(loc.D1, gap_idx)
        D2      == SegmentWrap(loc.D2, gap_idx)
        idx_rows == OutlierRows(Ra1, Ra2, Db1, Db2)
    IN  IF ~IdsAsserted(my_data, initiating_id, target_id)
        THEN [status |-> "AssertionError"]
        ELSE IF "tx1" \in loc.unbound
        THEN [status |-> "UnboundLocalError", name |-> "tx1"]
        ELSE IF "D1" \in loc.unbound
        THEN [status |-> "UnboundLocalError", name |-> "D1"]
        ELSE [status |-> "ok",
              value |-> [initiating_id |-> initiating_id,
                         target_id |-> target_id,
                         dt  |-> Delete(dt, idx_rows),
                         gt  |-> Delete(loc.gt, idx_rows),
                         Ra1 |-> Delete(Ra1, idx_rows),
                         Ra2 |-> Delete(Ra2, idx_rows),
                         Db1 |-> Delete(Db1, idx_rows),
                         Db2 |-> Delete(Db2, idx_rows),
                         D1  |-> Delete(D1, idx_rows),
                         D2  |-> Delete(D2, idx_rows)]]

ExtractData(initiating_idx, target_idx) ==
    /\ ret' = [op |-> "_extract_data", args |-> <<initiating_idx, target_idx>>]
              @@ ExtractOutcome(initiating_idx, target_idx)
    /\ UNCHANGED <<average, static, thresh, twr_type, board_ids, data, file,
                   system, printed, ncorr>>

----------------------------------------------------------------------------
(* Sessions: the datasets a calibration session holds                      *)

\* the module ids (i, j, k) of the session
BoardIds == <<3, 1, 2>>

\* the hidden antenna delays (ns) the recorded timestamps carry
DelayChoices == {<<1, 2, 3>>}

\* one recorded exchange: the second-round deltas (ns); Ra2 / Db2 is NaN,
\* infinite or 2
RowChoices ==
    {[Ra2 |-> 0, Db2 |-> 0], [Ra2 |-> 2, Db2 |-> 0], [Ra2 |-> 2, Db2 |-> 1]}

\* the reply delay Db1 (ns) of module i, j, k when it is the target
ReplyDelay == <<0, 0, 1>>

NoiseChoices == {0, 1}

\* a ground truth (m) whose time of flight is tof ns
GroundTruth(tof) == Q(tof * _c, 1000000000)

\* the dataset of pair p recorded from exchanges ch with delays dl; noise is
\* added to the first Ra1 of the first pair
MakeDataset(p, ch, dl, tt, noise) ==
    LET ii == Pairs[p][1] + 1
        ti == Pairs[p][2] + 1
        Kr(r) == IF tt = 0 \/ ch[r].Db2 = 0 THEN F(1) ELSE Q(ch[r].Ra2, ch[r].Db2)
        Nz(r) == IF p = 1 /\ r = 1 THEN noise ELSE 0
    IN  [initiating_id |-> BoardIds[ii],
         target_id |-> BoardIds[ti],
         dt  |-> SeqOf([r \in 1..Len(ch) |-> F(r - 1)]),
         gt  |-> SeqOf([r \in 1..Len(ch) |-> GroundTruth(1)]),
         Ra1 |-> SeqOf([r \in 1..Len(ch) |->
                    QSub(QAdd(F(2 + Nz(r)), QMul(Kr(r), F(ReplyDelay[ti] - dl[ti]))),
                         F(dl[ii]))]),
         Ra2 |-> SeqOf([r \in 1..Len(ch) |-> F(ch[r].Ra2)]),
         Db1 |-> SeqOf([r \in 1..Len(ch) |-> F(ReplyDelay[ti])]),
         Db2 |-> SeqOf([r \in 1..Len(ch) |-> F(ch[r].Db2)]),
         D1  |-> SeqOf([r \in 1..Len(ch) |-> F(r)]),
         D2  |-> SeqOf([r \in 1..Len(ch) |-> F(r + 1)])]

InitObject ==
    /\ average = FALSE
    /\ static = TRUE
    /\ thresh = 50000000
    /\ board_ids = BoardIds
    /\ ret = NoRet
    /\ system = [K |-> <<>>, A |-> <<>>, b |-> <<>>]
    /\ printed = <<>>
    /\ ncorr = 0

\* a session about to calibrate: up to MaxRows exchanges over the three pairs
InitCalibrate ==
    /\ InitObject
    /\ file = <<>>
    /\ twr_type \in {0, 1}
    /\ \E dl \in DelayChoices, noise \in NoiseChoices :
       \E lens \in {l \in [1..3 -> 0..MaxRows] : l[1] + l[2] + l[3] <= MaxRows} :
       \E c1 \in [1..lens[1] -> RowChoices], c2 \in [1..lens[2] -> RowChoices],
          c3 \in [1..lens[3] -> RowChoices] :
            data = [key \in {KeyOrder[p] : p \in 1..3} |->
                      LET p == CHOOSE p \in 1..3 : KeyOrder[p] = key
                      IN  MakeDataset(p, <<c1, c2, c3>>[p], dl, twr_type, noise)]

NextCalibrate == CalibrateAntennas

SpecCalibrate == InitCalibrate /\ [][NextCalibrate]_vars

\* the arguments the session passes to correct_antenna_delay and
\* compute_range_meas: the three modules and one that is in no dataset
IdArgs == {1, 2, 3, 4}

DelayArgs == {F(1), F(-1)}

\* (id1, id2) for compute_range_meas: a pair as recorded, a pair reversed,
\* a pair in no dataset
RangeArgs == {<<3, 1>>, <<2, 3>>, <<4, 1>>}

\* a session that calibrates, corrects and ranges: every pair holds the same
\* one or two recorded exchanges
Init ==
    /\ InitObject
    /\ file = <<>>
    /\ twr_type \in {0, 1}
    /\ \E ch \in RowChoices, len \in 1..2 :
            data = [key \in {KeyOrder[p] : p \in 1..3} |->
                      LET p == CHOOSE p \in 1..3 : KeyOrder[p] = key
                      IN  MakeDataset(p, [r \in 1..len |-> ch], <<1, 0, 1>>,
                                      twr_type, 0)]

Next ==
    \/ CalibrateAntennas
    \/ \E id \in IdArgs, delay \in DelayArgs : CorrectAntennaDelay(id, delay)
    \/ \E ids \in RangeArgs : ComputeRangeMeas(ids[1], ids[2])

Spec == Init /\ [][Next]_vars

----------------------------------------------------------------------------
(* Logs: the files a session hands to _extract_data                        *)

\* one exchange of a log: the six timestamps tx1, rx1, tx2, rx2, tx3, rx3
\* (ns) of counters that wrap at max_time_ns.  tof is the time of flight,
\* reply and final the target's delays before its two transmissions; with
\* wrapAt = k > 0 the counters wrap between the k-th and the next event.
TofNs == 10

ShortDelayNs == 300000

LongDelayNs == 60000000

ExchangeKinds ==
    {[wrapAt |-> 0, reply |-> ShortDelayNs, final |-> ShortDelayNs],
     [wrapAt |-> 0, reply |-> LongDelayNs, final |-> ShortDelayNs],
     [wrapAt |-> 0, reply |-> ShortDelayNs, final |-> LongDelayNs],
     [wrapAt |-> 1, reply |-> ShortDelayNs, final |-> ShortDelayNs],
     [wrapAt |-> 2, reply |-> ShortDelayNs, final |-> ShortDelayNs],
     [wrapAt |-> 3, reply |-> ShortDelayNs, final |-> ShortDelayNs],
     [wrapAt |-> 4, reply |-> ShortDelayNs, final |-> ShortDelayNs]}

Timestamps(kd) ==
    LET \* the events' times after tx1, in time order
        after == <<0, TofNs, TofNs + kd.reply, 2 * TofNs + kd.reply,
                   TofNs + kd.reply + kd.final, 2 * TofNs + kd.reply + kd.final>>
        start == IF kd.wrapAt = 0 THEN 5000000
                 ELSE max_time_ns - 5 - after[kd.wrapAt]
    IN  [e \in 1..6 |-> (start + after[e]) % max_time_ns]

\* the reference (mocap) timestamps: consecutive samples 10 ms apart, or
\* 200 ms apart where a new formation starts
RECURSIVE MocapTimes(_)
MocapTimes(steps) ==
    IF steps = <<>> THEN <<0>>
    ELSE LET before == MocapTimes(SubSeq(steps, 1, Len(steps) - 1))
         IN  Append(before, before[Len(before)]
                            + (IF steps[Len(steps)] THEN 200000000 ELSE 10000000))

\* a row of the log: column 0 the initiator, then one block of 11 columns
\* per target from column 2 on: target id, reference timestamp, ground
\* truth, tx1, rx1, tx2, rx2, tx3, rx3 and two columns that are not read
FileRow(c0, tgt1, tgt2, mocap, gt, ts) ==
    LET Block(tgt, g) == <<F(tgt), F(mocap), F(g), F(ts[1]), F(ts[2]), F(ts[3]),
                           F(ts[4]), F(ts[5]), F(ts[6]), F(0), F(0)>>
    IN  <<F(c0), F(0)>> \o Block(tgt1, gt) \o Block(tgt2, gt + 10)

\* a log about to be extracted
InitExtract ==
    /\ average \in BOOLEAN
    /\ static \in BOOLEAN
    /\ thresh = 50000000
    /\ twr_type = 1
    /\ board_ids = BoardIds
    /\ data = <<>>
    /\ ret = NoRet
    /\ system = [K |-> <<>>, A |-> <<>>, b |-> <<>>]
    /\ printed = <<>>
    /\ ncorr = 0
    /\ \E n \in 2..MaxFileRows :
       \E kinds \in [1..n -> ExchangeKinds], steps \in [1..(n - 1) -> BOOLEAN] :
       \E c0 \in {BoardIds[1], BoardIds[2]}, tgt1 \in {BoardIds[2], BoardIds[3]} :
            file = [r \in 1..n |->
                      FileRow(c0, tgt1, BoardIds[3], MocapTimes(steps)[r], r,
                              Timestamps(kinds[r]))]

NextExtract == \E p \in 1..3 : ExtractData(Pairs[p][1], Pairs[p][2])

SpecExtract == InitExtract /\ [][NextExtract]_vars

----------------------------------------------------------------------------
(* Properties of calibrate_antennas                                        *)

Calibrated == ret.op = "calibrate_antennas"

\* the stacked rows of all three pair datasets, in stacked order, as
\* [p, r]: pair and row within the pair
StackedRows ==
    SeqOf([r \in 1..Len(data[KeyOrder[1]].gt) |-> <<1, r>>])
    \o SeqOf([r \in 1..Len(data[KeyOrder[2]].gt) |-> <<2, r>>])
    \o SeqOf([r \in 1..Len(data[KeyOrder[3]].gt) |-> <<3, r>>])

\* determinant of three rows of three
RowDet(u, v, w) ==
    QAdd(QSub(QMul(u[1], QSub(QMul(v[2], w[3]), QMul(v[3], w[2]))),
              QMul(u[2], QSub(QMul(v[1], w[3]), QMul(v[3], w[1])))),
         QMul(u[3], QSub(QMul(v[1], w[2]), QMul(v[2], w[1]))))

\* the number of independent rows of a finite matrix with three columns
Rank(A) ==
    LET R == 1..Len(A)
        Minor(a, b, i, j) == QSub(QMul(A[a][i], A[b][j]), QMul(A[a][j], A[b][i]))
    IN  IF \E a, b, c \in R : a < b /\ b < c /\ RowDet(A[a], A[b], A[c]) # F(0)
        THEN 3
        ELSE IF \E a, b \in R : \E i, j \in 1..3 :
                    a < b /\ i < j /\ Minor(a, b, i, j) # F(0)
        THEN 2
        ELSE IF \E a \in R : \E i \in 1..3 : A[a][i] # F(0) THEN 1
        ELSE 0

\* the delays x satisfy the row equation of row r of pair p, with the gain
\* K the calibration computed for it:
\* 0.5*d_initiator + 0.5*K*d_target = gt/c*1e9 - 0.5*Ra1 + 0.5*K*Db1
RowEquation(p, r, x) ==
    LET d  == data[KeyOrder[p]]
        K  == system.K[p][r]
        di == F(x[Pairs[p][1] + 1])
        dj == F(x[Pairs[p][2] + 1])
    IN  /\ IsFinite(K)
        /\ QAdd(di, QMul(K, dj))
           = QAdd(QSub(QDiv(QMul(d.gt[r], F(2000000000)), F(_c)), d.Ra1[r]),
                  QMul(K, d.Db1[r]))

ZeroNoise(x) ==
    \A p \in 1..3 : \A r \in 1..Len(data[KeyOrder[p]].gt) : RowEquation(p, r, x)

Returned(x) == \A z \in 1..3 : ret.value[board_ids[z]] = x[z]

\* C1: from zero-noise datasets whose stacked system has rank 3,
\* calibrate_antennas returns exactly the delays d_i, d_j, d_k that satisfy
\* every row equation, for modules i, j, k in that order.
C1_ZeroNoiseRecovery ==
    (Calibrated /\ Rank(system.A) = 3) =>
        \A x \in [1..3 -> 0..MaxDelay] :
            ZeroNoise(x)
                => ret.status = "ok" /\ Returned([z \in 1..3 |-> F(x[z])])

C1_Witness ==
    /\ Calibrated
    /\ twr_type = 1
    /\ ZeroNoise(<<1, 2, 3>>)
    /\ Rank(system.A) = 3
    /\ \E r \in 1..Len(system.A) : system.A[r][3] = F(1)
    /\ Returned(<<F(1), F(2), F(3)>>)

\* C3: with twr_type == 0 the skew gain of every pair is the all-ones
\* sequence of the length of the dataset, whatever Ra2 and Db2 are.
C3_SkewGainAllOnes ==
    (Calibrated /\ twr_type = 0) =>
        \A p \in 1..3 :
            /\ Len(system.K[p]) = Len(data[KeyOrder[p]].Ra2)
            /\ \A r \in 1..Len(system.K[p]) : system.K[p][r] = F(1)

\* C4 as claimed: calibrate_antennas ends in an error and returns no delay
\* mapping whenever the system after NaN-row removal has fewer than 3
\* independent rows.
C4_DegenerateIsError ==
    (Calibrated /\ AllFinite(system.A, system.b) /\ Rank(system.A) < 3)
        => ret.status # "ok"

\* C4 amended: on a finite system with fewer than 3 independent rows
\* calibrate_antennas raises no error and returns, for the three modules,
\* the minimum-norm least-squares solution: it solves the normal equations
\* A'(Ax - b) = 0 and lies in the row space of A (all zeros when no row
\* survives).
C4_DegenerateMinNorm ==
    (Calibrated /\ AllFinite(system.A, system.b) /\ Rank(system.A) < 3) =>
        /\ ret.status = "ok"
        /\ DOMAIN ret.value = {board_ids[z] : z \in 1..3}
        /\ LET x   == <<ret.value[board_ids[1]], ret.value[board_ids[2]],
                        ret.value[board_ids[3]]>>
               res == ArrSub(MatVec(system.A, x), system.b)
           IN  /\ \A col \in 1..3 : Dot(Column(system.A, col), res) = F(0)
               /\ Rank(system.A \o <<x>>) = Rank(system.A)
               /\ Len(system.A) = 0 => x = <<F(0), F(0), F(0)>>

C4_Witness ==
    /\ Calibrated
    /\ AllFinite(system.A, system.b)
    /\ Rank(system.A) = 2
    /\ Len(system.A) = 3
    /\ ret.status = "ok"
    /\ \E z \in 1..3 : ret.value[board_ids[z]] # F(0)

\* C9: calibrate_antennas prints the norm of b and the residual norm
\* ||b - A x|| of the solved system (norms as their squares); for zero-noise
\* data with a full-rank system the second value is 0.  Stated for systems
\* with finite entries only.
C9_ResidualDiagnostic ==
    (Calibrated /\ ret.status = "ok" /\ AllFinite(system.A, system.b)) =>
        LET x == <<ret.value[board_ids[1]], ret.value[board_ids[2]],
                   ret.value[board_ids[3]]>>
        IN  /\ printed[1] = Norm2(system.b)
            /\ printed[2] = Norm2(ArrSub(system.b, MatVec(system.A, x)))
            /\ (ZeroNoise(<<1, 2, 3>>) /\ Rank(system.A) = 3) => printed[2] = F(0)

\* C10: with the general TWR type every row whose Db2 is zero is removed
\* before solving: A and b handed to the solver have the same number of
\* rows and only finite entries.
C10_SolverInputFinite ==
    (Calibrated /\ twr_type # 0) =>
        /\ Len(system.A) = Len(system.b)
        /\ AllFinite(system.A, system.b)
        /\ Len(system.A) <= Cardinality({q \in 1..Len(StackedRows) :
              data[KeyOrder[StackedRows[q][1]]].Db2[StackedRows[q][2]] # F(0)})

----------------------------------------------------------------------------
(* Properties of correct_antenna_delay                                     *)

\* C7: correct_antenna_delay(id, delay) adds delay to Ra1 of every dataset
\* whose initiator is id, subtracts it from Db1 of every dataset whose
\* target is id, and changes nothing else: not the other Ra1 and Db1, not
\* gt, dt, Ra2, Db2, D1, D2, the ids or the set of keys; calibrate_antennas
\* and compute_range_meas change no dataset at all.
C7_CorrectionFrame ==
    [][/\ ret'.op = "correct_antenna_delay" /\ ncorr' # ncorr =>
            LET id    == ret'.args[1]
                delay == ret'.args[2]
            IN  /\ DOMAIN data' = DOMAIN data
                /\ \A key \in DOMAIN data :
                    LET old == data[key]
                        new == data'[key]
                        n   == Len(old.Ra1)
                    IN  /\ Len(new.Ra1) = n /\ Len(new.Db1) = Len(old.Db1)
                        /\ \A r \in 1..n :
                            /\ new.Ra1[r] = IF key[1] = id
                                            THEN QAdd(old.Ra1[r], delay)
                                            ELSE old.Ra1[r]
                            /\ new.Db1[r] = IF key[2] = id
                                            THEN QSub(old.Db1[r], delay)
                                            ELSE old.Db1[r]
                        /\ \A f \in {"gt", "dt", "Ra2", "Db2", "D1", "D2",
                                     "initiating_id", "target_id"} :
                               new[f] = old[f]
       /\ ncorr' = ncorr => data' = data]_vars

C7_Witness ==
    /\ ret.op = "correct_antenna_delay"
    /\ ret.args = <<board_ids[2], F(-1)>>
    /\ ncorr = 1
    /\ \A key \in DOMAIN data : Len(data[key].Ra1) = 2
    /\ data[Key(0, 1)].Db1[1] = F(1)
    /\ data[Key(1, 2)].Ra1[2] = F(1)

----------------------------------------------------------------------------
(* Properties of _extract_data                                             *)

Extracted == ret.op = "_extract_data"

\* the block of columns of the log that holds the target of the pair
BlockOf(args) == args[2] - args[1]

\* positions in a row of the log (counted from 1) of block blk: the target
\* id, the reference timestamp, the ground truth and the six timestamps
\* tx1, rx1, tx2, rx2, tx3, rx3 (e = 1..6)
IdColumn(blk) == 3 + 11 * (blk - 1)

MocapOf(row, blk) == file[row][IdColumn(blk) + 1]

GtOf(row, blk) == file[row][IdColumn(blk) + 2]

Stamp(row, blk, e) == file[row][IdColumn(blk) + 2 + e]

\* the differences of the recorded timestamps of one row of the log
RawDelta(f, row, blk) ==
    CASE f = "Ra1" -> QSub(Stamp(row, blk, 4), Stamp(row, blk, 1))
      [] f = "Ra2" -> QSub(Stamp(row, blk, 6), Stamp(row, blk, 4))
      [] f = "Db1" -> QSub(Stamp(row, blk, 3), Stamp(row, blk, 2))
      [] f = "Db2" -> QSub(Stamp(row, blk, 5), Stamp(row, blk, 3))
      [] f = "D1"  -> QSub(Stamp(row, blk, 2), Stamp(row, blk, 1))
      [] f = "D2"  -> QSub(Stamp(row, blk, 4), Stamp(row, blk, 3))
      [] f = "dt"  -> IF row = 1 THEN F(0)
                      ELSE QSub(Stamp(row, blk, 1), Stamp(row - 1, blk, 1))

RawColumn(f, blk) == SeqOf([row \in 1..Len(file) |-> RawDelta(f, row, blk)])

Wrapped == {"dt", "Ra1", "Ra2", "Db1", "Db2"}

\* equal up to one wrap of the counters
SameModuloWrap(a, b) ==
    QSub(a, b) \in {F(0), F(max_time_ns), F(0 - max_time_ns)}

\* the number of segments of the log of block blk
Segments(blk) ==
    1 + Cardinality({row \in 2..Len(file) :
            QGt(QAbs(QSub(MocapOf(row, blk), MocapOf(row - 1, blk))),
                F(gap_threshold))})

\* C2: with static and average both set, _extract_data on a log whose ids
\* match completes without error and returns at most one row per segment
\* of the reference timestamps (one per segment before outlier removal).
C2_AveragedSegments ==
    (Extracted /\ static /\ average /\ ret.status # "AssertionError") =>
        /\ ret.status = "ok"
        /\ Len(ret.value.gt) <= Segments(BlockOf(ret.args))

\* C5: _extract_data ends in an assertion error, with no dataset returned,
\* exactly when the initiator id (column 0) or the target id of the first
\* row of the log differs from the id expected for the pair.
C5_IdAssertion ==
    Extracted =>
        LET blk   == BlockOf(ret.args)
            match == /\ file[1][1] = F(board_ids[ret.args[1] + 1])
                     /\ file[1][IdColumn(blk)] = F(board_ids[ret.args[2] + 1])
        IN  /\ match <=> ret.status # "AssertionError"
            /\ ~match => "value" \notin DOMAIN ret

C5_Witness ==
    /\ Extracted
    /\ ret.args = <<0, 1>>
    /\ file[1][1] = F(board_ids[1])
    /\ file[1][IdColumn(1)] # F(board_ids[2])
    /\ ret.status = "AssertionError"

\* C6: in every dataset _extract_data returns, the eight sequences have one
\* length, every retained row has |Ra1|, |Ra2|, |Db1|, |Db2| <= thresh, and
\* the retained rows are rows of the log in their original order: position
\* r of every sequence comes from the same row of the log.
C6_OutlierFilter ==
    (Extracted /\ ret.status = "ok") =>
        LET v   == ret.value
            blk == BlockOf(ret.args)
            n   == Len(v.gt)
        IN  /\ \A f \in Fields : Len(v[f]) = n
            /\ \A r \in 1..n : \A f \in {"Ra1", "Ra2", "Db1", "Db2"} :
                   QLe(QAbs(v[f][r]), F(thresh))
            /\ \E src \in [1..n -> 1..Len(file)] :
                   /\ \A r, q \in 1..n : r < q => src[r] < src[q]
                   /\ \A r \in 1..n :
                        /\ v.gt[r] = GtOf(src[r], blk)
                        /\ \A f \in Fields \ {"gt"} :
                               SameModuloWrap(v[f][r], RawDelta(f, src[r], blk))

C6_Witness ==
    /\ Extracted
    /\ ret.status = "ok"
    /\ ret.args = <<0, 2>>
    /\ Len(file) = 2
    /\ QGt(RawDelta("Db2", 1, 2), F(thresh))
    /\ QLe(RawDelta("Db1", 1, 2), F(thresh))
    /\ ret.value.gt = <<GtOf(2, 2)>>
    /\ ret.value.Ra1 = <<RawDelta("Ra1", 2, 2)>>

\* C8: the delta wrap of dt, Ra1, Ra2, Db1, Db2 maps a negative delta d to
\* d + max_time_ns, which is non-negative when |d| < max_time_ns, and a
\* non-negative d to itself; on deltas with |d| < max_time_ns a second
\* application changes nothing; the values returned are wrapped deltas.
C8_DeltaWrapRule ==
    \A blk \in {BlockOf(Pairs[p]) : p \in 1..3} : \A f \in Wrapped :
        LET a   == RawColumn(f, blk)
            w   == DeltaWrap(a)
        IN  /\ Len(w) = Len(a)
            /\ \A r \in 1..Len(a) :
                /\ QLt(a[r], F(0)) =>
                     /\ w[r] = QAdd(a[r], F(max_time_ns))
                     /\ QLt(QAbs(a[r]), F(max_time_ns)) => QLe(F(0), w[r])
                /\ QLe(F(0), a[r]) => w[r] = a[r]
            /\ (\A r \in 1..Len(a) : QLt(QAbs(a[r]), F(max_time_ns)))
                   => DeltaWrap(w) = w
            /\ (Extracted /\ ret.status = "ok" /\ BlockOf(ret.args) = blk) =>
                   \A r \in 1..Len(ret.value[f]) :
                       /\ QLe(F(0), ret.value[f][r])
                       /\ \E row \in 1..Len(w) : ret.value[f][r] = w[row]

C8_Witness ==
    /\ Extracted
    /\ ret.status = "ok"
    /\ ret.args = <<0, 1>>
    /\ Len(file) = 2
    /\ Len(ret.value.gt) = 2
    /\ QLt(RawDelta("Ra1", 1, 1), F(0))
    /\ ret.value.Ra1[1] = QAdd(RawDelta("Ra1", 1, 1), F(max_time_ns))
    /\ QLt(RawDelta("dt", 2, 1), F(0))
    /\ ret.value.dt[2] = QAdd(RawDelta("dt", 2, 1), F(max_time_ns))
    /\ ret.value.Db1[2] = RawDelta("Db1", 2, 1)

====
